---- MODULE Spec2Model ----
(***************************************************************************)
(* Model of src/src/client/request_strategy.rs: the retry policy           *)
(* (RequestStrategy), its decision function (test), the idempotency key    *)
(* derivation (get_key) and the backoff delay (calculate_backoff).         *)
(***************************************************************************)
EXTENDS Integers, Sequences, FiniteSets, TLC

VARIABLES
    uuid_feature,          \* cfg(feature = "uuid"): fixed when the crate is built
    strategy,              \* self: the RequestStrategy value of the request
    status,                \* Option<StatusCode> passed to test
    stripe_should_retry,   \* Option<bool> passed to test
    retry_count,           \* u64 passed to test
    outcome,               \* what the last call of test returned (or NotCalled)
    pc,                    \* where the caller is
    attempts,              \* attempts the caller loop has issued for this request
    clean,                 \* no veto and no client error was passed in this loop
    key_log                \* the get_key calls so far: <<[self, key, uuid], ...>>

vars == <<uuid_feature, strategy, status, stripe_should_retry, retry_count,
          outcome, pc, attempts, clean, key_log>>

-----------------------------------------------------------------------------
(* Bounds of the model *)

\* retry counts and maxima explored for the decision function: 0..MaxCount
MaxCount == 66
\* maxima explored in the caller loop and for get_key: 0..MaxRetries
MaxRetries == 3
\* number of get_key calls explored
MaxKeyCalls == 3
\* number of distinct outputs of the random source explored
MaxRandom == 3
\* number of get_key calls explored among the calls of test
MaxApiKeyCalls == 1

-----------------------------------------------------------------------------
(* Option<T> *)

None == <<>>
Some(x) == <<x>>
IsSome(o) == o # None
Unwrap(o) == o[1]

\* Option::unwrap_or
unwrap_or(o, default) == IF o = None THEN default ELSE o[1]

-----------------------------------------------------------------------------
(* std::time::Duration: secs is a u64, nanos a u32 below 10^9.  The u64 is   *)
(* kept as four 16-bit limbs, least significant first, so that its width is *)
(* exact.                                                                   *)

LimbBase == 2^16
LimbCount == 64 \div 16
NanosPerSec == 10^9

\* the u64 of a small number v (v < 2^31)
U64(v) == [i \in 1..LimbCount |->
            IF i = 1 THEN v % LimbBase
            ELSE IF i = 2 THEN (v \div LimbBase) % LimbBase
            ELSE 0]

\* limbs i.. of l * rhs + carry, and the carry out of the top limb
RECURSIVE MulFrom(_, _, _, _)
MulFrom(l, rhs, i, carry) ==
    IF i > Len(l) THEN [limbs |-> <<>>, carry |-> carry]
    ELSE LET p == l[i] * rhs + carry
             rest == MulFrom(l, rhs, i + 1, p \div LimbBase)
         IN  [limbs |-> <<p % LimbBase>> \o rest.limbs, carry |-> rest.carry]

\* u64::checked_mul by a small factor: None on overflow
checked_mul_u64(l, rhs) ==
    LET r == MulFrom(l, rhs, 1, 0)
    IN  IF r.carry # 0 THEN None ELSE Some(r.limbs)

\* u64::checked_add of a small addend: None on overflow
checked_add_u64(l, add) ==
    LET r == MulFrom(l, 1, 1, add)
    IN  IF r.carry # 0 THEN None ELSE Some(r.limbs)

\* Duration::from_secs
from_secs(v) == [secs |-> U64(v), nanos |-> 0]

\* Duration::checked_mul(self, rhs: u32)
checked_mul(d, rhs) ==
    LET total_nanos == d.nanos * rhs
        extra_secs == total_nanos \div NanosPerSec
        nanos == total_nanos % NanosPerSec
        s == checked_mul_u64(d.secs, rhs)
    IN  IF s = None THEN None
        ELSE LET secs == checked_add_u64(Unwrap(s), extra_secs)
             IN  IF secs = None THEN None
                 ELSE Some([secs |-> Unwrap(secs), nanos |-> nanos])

-----------------------------------------------------------------------------
(* enum Outcome, and the panic a call can end in instead of returning *)

Stop == [tag |-> "Stop", delay |-> None]
Continue(delay) == [tag |-> "Continue", delay |-> delay]
\* the call unwound: "overflow when multiplying duration by scalar"
Panicked == [tag |-> "Panicked", delay |-> None]
\* test has not been called yet
NotCalled == [tag |-> "NotCalled", delay |-> None]

-----------------------------------------------------------------------------
(* enum RequestStrategy *)

NoKey == ""
Once == [tag |-> "Once", key |-> NoKey, n |-> 0]
Idempotent(k) == [tag |-> "Idempotent", key |-> k, n |-> 0]
Retry(n) == [tag |-> "Retry", key |-> NoKey, n |-> n]
ExponentialBackoff(n) == [tag |-> "ExponentialBackoff", key |-> NoKey, n |-> n]

\* an is_client_error without the upper end of the range
is_client_error_unbounded(c) == c >= 400

\* StatusCode::is_client_error
is_client_error(c) == c >= 400 /\ c < 500

\* fn calculate_backoff: `remaining` iterations of the loop are left to run.
\* Some(duration) when the loop ends, None when `duration * 2` panics.
RECURSIVE backoff_loop(_, _)
backoff_loop(remaining, duration) ==
    IF remaining = 0 THEN Some(duration)
    ELSE LET doubled == checked_mul(duration, 2)
         IN  IF doubled = None THEN None
             ELSE backoff_loop(remaining - 1, Unwrap(doubled))

\* a calculate_backoff that starts from a duration of zero
calculate_backoff_from_zero(count) == backoff_loop(count, from_secs(0))

calculate_backoff(count) == backoff_loop(count, from_secs(1))

\* the arms of the match in test, in the order of the source

\* a first-try arm that also accepts the count 1
arm_first_try_upto1(self, st, x) ==
    self.tag \in {"Once", "Idempotent"} /\ x <= 1

arm_first_try(self, st, x) ==
    self.tag \in {"Once", "Idempotent"} /\ x = 0

\* a client-error arm whose pattern lists Idempotent alone
arm_client_error_idempotent_only(self, st, x) ==
    /\ self.tag \in {"Idempotent"}
    /\ IsSome(st)
    /\ is_client_error(Unwrap(st))

arm_client_error(self, st, x) ==
    /\ self.tag \in {"Retry", "Idempotent", "ExponentialBackoff"}
    /\ IsSome(st)
    /\ is_client_error(Unwrap(st))

\* a retry arm that compares with <= instead of <
arm_retry_inclusive(self, st, x) ==
    self.tag = "Retry" /\ x <= self.n

\* a retry arm that compares with != instead of <
arm_retry_not_equal(self, st, x) ==
    self.tag = "Retry" /\ x # self.n

arm_retry(self, st, x) ==
    self.tag = "Retry" /\ x < self.n

arm_backoff(self, st, x) ==
    self.tag = "ExponentialBackoff" /\ x < self.n

\* a match with the client-error arm placed before the first-try arm
match_arms_client_error_first(self, st, x) ==
    IF arm_client_error(self, st, x) THEN Stop
    ELSE IF arm_first_try(self, st, x) THEN Continue(None)
    ELSE IF arm_retry(self, st, x) THEN Continue(None)
    ELSE IF arm_backoff(self, st, x) THEN
        LET d == calculate_backoff(x)
        IN  IF d = None THEN Panicked ELSE Continue(Some(Unwrap(d)))
    ELSE Stop

match_arms(self, st, x) ==
    IF arm_first_try(self, st, x) THEN Continue(None)
    ELSE IF arm_client_error(self, st, x) THEN Stop
    ELSE IF arm_retry(self, st, x) THEN Continue(None)
    ELSE IF arm_backoff(self, st, x) THEN
        LET d == calculate_backoff(x)
        IN  IF d = None THEN Panicked ELSE Continue(Some(Unwrap(d)))
    ELSE Stop

\* a test without the check of the remote hint
test_without_veto(self, st, hint, x) == match_arms(self, st, x)

\* a test that takes an absent hint for a veto: unwrap_or(false)
test_default_no_retry(self, st, hint, x) ==
    IF ~unwrap_or(hint, FALSE) THEN Stop
    ELSE match_arms(self, st, x)

\* RequestStrategy::test
test(self, st, hint, x) ==
    IF ~unwrap_or(hint, TRUE) THEN Stop
    ELSE match_arms(self, st, x)

-----------------------------------------------------------------------------
(* uuid::Uuid: sixteen bytes.  Uuid::new_v4 takes sixteen random bytes and   *)
(* overwrites the version and variant bits; to_string renders the bytes as  *)
(* lower-case hex in the groups 8-4-4-4-12.                                 *)

HexDigits == <<"0", "1", "2", "3", "4", "5", "6", "7",
               "8", "9", "a", "b", "c", "d", "e", "f">>

HexByte(b) == HexDigits[(b \div 16) + 1] \o HexDigits[(b % 16) + 1]

\* the k-th output of the random source: sixteen bytes
RandomBytes(k) == [j \in 1..16 |-> (k * 85 + j * 7) % 256]

\* Uuid::new_v4: version 4 in the high nibble of byte 6, variant 10 in the
\* high bits of byte 8 (bytes counted from 0)
new_v4(bytes) ==
    [j \in 1..16 |->
        IF j = 7 THEN (bytes[j] % 16) + 64
        ELSE IF j = 9 THEN (bytes[j] % 64) + 128
        ELSE bytes[j]]

RECURSIVE HexFrom(_, _)
HexFrom(u, j) ==
    IF j > Len(u) THEN ""
    ELSE HexByte(u[j]) \o (IF j \in {4, 6, 8, 10} THEN "-" ELSE "")
                       \o HexFrom(u, j + 1)

\* Uuid::to_string (hyphenated)
to_string(u) == HexFrom(u, 1)

\* a get_key that hands out no key for Idempotent either
get_key_no_caller_key(self, u) ==
    IF self.tag \in {"Once", "Idempotent"} THEN None
    ELSE IF uuid_feature THEN Some(to_string(u))
    ELSE None

\* a get_key that renders one fixed identifier instead of a new one
get_key_fixed(self, u) ==
    IF self.tag = "Once" THEN None
    ELSE IF self.tag = "Idempotent" THEN Some(self.key)
    ELSE IF uuid_feature THEN Some(to_string(new_v4(RandomBytes(0))))
    ELSE None

\* a get_key whose generating arm lists Retry alone
get_key_retry_only(self, u) ==
    IF self.tag = "Once" THEN None
    ELSE IF self.tag = "Idempotent" THEN Some(self.key)
    ELSE IF uuid_feature /\ self.tag = "Retry" THEN Some(to_string(u))
    ELSE None

\* RequestStrategy::get_key; u is the value Uuid::new_v4() returns
get_key(self, u) ==
    IF self.tag = "Once" THEN None
    ELSE IF self.tag = "Idempotent" THEN Some(self.key)
    ELSE IF uuid_feature THEN Some(to_string(u))
    ELSE None

-----------------------------------------------------------------------------
(* The inputs explored *)

\* StatusCode values: the ends of the 3xx, 4xx and 5xx ranges of the enum
StatusCodes == {200, 308, 400, 404, 451, 500}
Statuses == {None} \cup {Some(c) : c \in StatusCodes}
Hints == {None, Some(TRUE), Some(FALSE)}
Keys == {"key", "abc"}

Policies(max) ==
    {Once} \cup {Idempotent(k) : k \in Keys}
           \cup {Retry(n) : n \in 0..max}
           \cup {ExponentialBackoff(n) : n \in 0..max}

-----------------------------------------------------------------------------
(* SpecTest: the decision function applied once to every input *)

InitTest ==
    /\ uuid_feature = TRUE
    /\ strategy \in Policies(MaxCount)
    /\ status \in Statuses
    /\ stripe_should_retry \in Hints
    /\ retry_count \in 0..MaxCount
    /\ outcome = NotCalled
    /\ pc = "call"
    /\ attempts = 0
    /\ clean = TRUE
    /\ key_log = <<>>

Test ==
    /\ pc = "call"
    /\ outcome' = test(strategy, status, stripe_should_retry, retry_count)
    /\ pc' = "returned"
    /\ UNCHANGED <<uuid_feature, strategy, status, stripe_should_retry,
                   retry_count, attempts, clean, key_log>>

NextTest == Test

SpecTest == InitTest /\ [][NextTest]_vars

-----------------------------------------------------------------------------
(* SpecLoop: the caller's loop around test.  It starts at the count 0 with  *)
(* no status and no hint, issues one attempt on each Continue, increments   *)
(* the count, and passes the status and the hint of that attempt to the     *)
(* next call of test.                                                       *)

InitLoop ==
    /\ uuid_feature = TRUE
    /\ strategy \in Policies(MaxRetries)
    /\ status = None
    /\ stripe_should_retry = None
    /\ retry_count = 0
    /\ outcome = NotCalled
    /\ pc = "loop"
    /\ attempts = 0
    /\ clean = TRUE
    /\ key_log = <<>>

\* test says Continue: the attempt is issued and answers with s and h
LoopContinue ==
    /\ pc = "loop"
    /\ LET o == test(strategy, status, stripe_should_retry, retry_count)
       IN  /\ o.tag = "Continue"
           /\ outcome' = o
    /\ attempts' = attempts + 1
    /\ retry_count' = retry_count + 1
    /\ \E s \in Statuses, h \in Hints :
          /\ status' = s
          /\ stripe_should_retry' = h
          /\ clean' = (clean /\ h # Some(FALSE)
                            /\ ~(IsSome(s) /\ is_client_error(Unwrap(s))))
    /\ UNCHANGED <<uuid_feature, strategy, pc, key_log>>

\* test says Stop (or panics): the loop ends
LoopStop ==
    /\ pc = "loop"
    /\ LET o == test(strategy, status, stripe_should_retry, retry_count)
       IN  /\ o.tag # "Continue"
           /\ outcome' = o
           /\ pc' = IF o.tag = "Stop" THEN "done" ELSE "panicked"
    /\ UNCHANGED <<uuid_feature, strategy, status, stripe_should_retry,
                   retry_count, attempts, clean, key_log>>

NextLoop == LoopContinue \/ LoopStop

SpecLoop == InitLoop /\ [][NextLoop]_vars

\* the same loop for every maximum up to MaxCount, so that the loop of
\* ExponentialBackoff(n) gets to the counts where the delay no longer fits
InitLoopDeep ==
    /\ uuid_feature = TRUE
    /\ strategy \in Policies(MaxCount)
    /\ status = None
    /\ stripe_should_retry = None
    /\ retry_count = 0
    /\ outcome = NotCalled
    /\ pc = "loop"
    /\ attempts = 0
    /\ clean = TRUE
    /\ key_log = <<>>

SpecLoopDeep == InitLoopDeep /\ [][NextLoop]_vars

-----------------------------------------------------------------------------
(* SpecKey: get_key called repeatedly, on one policy value or on several,   *)
(* in a build with or without the uuid feature.                             *)

KeyPolicies ==
    {Once} \cup {Idempotent(k) : k \in Keys}
           \cup {Retry(0), Retry(MaxRetries), ExponentialBackoff(MaxRetries)}

InitKey ==
    /\ uuid_feature \in BOOLEAN
    /\ strategy \in KeyPolicies
    /\ status = None
    /\ stripe_should_retry = None
    /\ retry_count = 0
    /\ outcome = NotCalled
    /\ pc = "keys"
    /\ attempts = 0
    /\ clean = TRUE
    /\ key_log = <<>>

\* whether this call of get_key reaches Uuid::new_v4(): the arm of Retry and
\* ExponentialBackoff in a build with the uuid feature
calls_new_v4(self) ==
    /\ self.tag \in {"Retry", "ExponentialBackoff"}
    /\ uuid_feature

\* what one call of get_key leaves in the log: the policy value it was called
\* on, the key it returned and the identifier Uuid::new_v4() handed to it
\* (None when the call did not reach new_v4)
KeyCall(self, u) ==
    [self |-> self,
     key  |-> get_key(self, u),
     uuid |-> IF calls_new_v4(self) THEN Some(u) ELSE None]

\* a get_key that keeps the key it generated in the policy
GetKey_keeping ==
    /\ pc = "keys"
    /\ Len(key_log) < MaxKeyCalls
    /\ \E k \in 0..MaxRandom :
          LET u == new_v4(RandomBytes(k))
              key == get_key(strategy, u)
          IN  /\ key_log' = Append(key_log, KeyCall(strategy, u))
              /\ strategy' = IF IsSome(key) THEN Idempotent(Unwrap(key))
                                            ELSE strategy
    /\ UNCHANGED <<uuid_feature, status, stripe_should_retry,
                   retry_count, outcome, pc, attempts, clean>>

\* strategy.get_key().  Uuid::new_v4() renders whatever the random source
\* delivers on this call: get_key keeps no record of the keys it returned, so
\* a value the source delivered before comes back as the same key.
GetKey ==
    /\ pc = "keys"
    /\ Len(key_log) < MaxKeyCalls
    /\ \E k \in 0..MaxRandom :
          LET u == new_v4(RandomBytes(k))
          IN  key_log' = Append(key_log, KeyCall(strategy, u))
    /\ UNCHANGED <<uuid_feature, strategy, status, stripe_should_retry,
                   retry_count, outcome, pc, attempts, clean>>

\* the caller builds the policy value of another request
NewPolicy ==
    /\ pc = "keys"
    /\ \E s \in KeyPolicies \ {strategy} : strategy' = s
    /\ UNCHANGED <<uuid_feature, status, stripe_should_retry, retry_count,
                   outcome, pc, attempts, clean, key_log>>

NextKey == GetKey \/ NewPolicy

SpecKey == InitKey /\ [][NextKey]_vars

-----------------------------------------------------------------------------
(* Spec: test and get_key called on one policy value in any order, any      *)
(* number of times, with any arguments.                                     *)

ApiStatuses == {None, Some(404), Some(500)}

Init ==
    /\ uuid_feature \in BOOLEAN
    /\ strategy \in KeyPolicies
    /\ status = None
    /\ stripe_should_retry = None
    /\ retry_count = 0
    /\ outcome = NotCalled
    /\ pc = "keys"
    /\ attempts = 0
    /\ clean = TRUE
    /\ key_log = <<>>

\* strategy.test(s, h, x)
CallTest ==
    /\ pc = "keys"
    /\ \E s \in ApiStatuses, h \in Hints, x \in 0..MaxRetries :
          /\ status' = s
          /\ stripe_should_retry' = h
          /\ retry_count' = x
          /\ outcome' = test(strategy, s, h, x)
    /\ UNCHANGED <<uuid_feature, strategy, pc, attempts, clean, key_log>>

\* strategy.get_key() among the calls of test
ApiGetKey == Len(key_log) < MaxApiKeyCalls /\ GetKey

Next == CallTest \/ ApiGetKey

Spec == Init /\ [][Next]_vars

-----------------------------------------------------------------------------
(* Properties of the decision function, checked under SpecTest *)

Returned == pc = "returned"
Vetoed == stripe_should_retry = Some(FALSE)
ClientError == IsSome(status) /\ is_client_error(Unwrap(status))

\* the Duration of 2^e seconds, in closed form: one bit set in one limb
Pow2Duration(e) ==
    [secs |-> [i \in 1..LimbCount |->
                 IF i = (e \div 16) + 1 THEN 2^(e % 16) ELSE 0],
     nanos |-> 0]

\* C1: a remote hint of false makes test return Stop, for every policy,
\* every status and every retry count.
C1_VetoStops ==
    (Returned /\ Vetoed) => outcome = Stop

C1_Witness ==
    /\ Returned /\ Vetoed
    /\ strategy = ExponentialBackoff(3) /\ retry_count = 0 /\ status = None
    /\ outcome = Stop

\* C2: for Once and Idempotent(k), when the hint is not false, test returns
\* Continue(None) at count 0 and Stop at every count >= 1, for every status.
C2_RunOnce ==
    (Returned /\ ~Vetoed /\ strategy.tag \in {"Once", "Idempotent"}) =>
        outcome = (IF retry_count = 0 THEN Continue(None) ELSE Stop)

C2_Witness ==
    /\ Returned /\ stripe_should_retry = Some(TRUE)
    /\ strategy = Idempotent("key") /\ status = Some(404) /\ retry_count = 0
    /\ outcome = Continue(None)

\* C3: for Retry(n), when the hint is not false and the status is no client
\* error, test returns Continue(None) for the counts 0..n-1 and Stop for
\* every count >= n.
C3_RetryBudget ==
    (Returned /\ ~Vetoed /\ ~ClientError /\ strategy.tag = "Retry") =>
        outcome = (IF retry_count < strategy.n THEN Continue(None) ELSE Stop)

C3_Witness ==
    /\ Returned /\ stripe_should_retry = None /\ status = Some(500)
    /\ strategy = Retry(3) /\ retry_count = 2
    /\ outcome = Continue(None)

\* C4: for ExponentialBackoff(n), for every n, when the hint is not false and
\* the status is no client error, test returns Continue(Some(2^count s)) for
\* the counts 0..n-1 and Stop for every count >= n.
C4_BackoffDelays ==
    (Returned /\ ~Vetoed /\ ~ClientError /\ strategy.tag = "ExponentialBackoff") =>
        outcome = (IF retry_count < strategy.n
                   THEN Continue(Some(Pow2Duration(retry_count)))
                   ELSE Stop)

\* C5: for any policy and any hint, a client-error status at a count >= 1
\* makes test return Stop.
C5_ClientErrorStops ==
    (Returned /\ ClientError /\ retry_count >= 1) => outcome = Stop

C5_Witness ==
    /\ Returned /\ stripe_should_retry = None /\ status = Some(404)
    /\ strategy = Retry(3) /\ retry_count = 1
    /\ outcome = Stop

\* C6: test is total: for every policy, status, hint and count the call
\* returns an Outcome (Stop or Continue) and never panics.
C6_Total ==
    Returned => outcome.tag \in {"Stop", "Continue"}

-----------------------------------------------------------------------------
(* Properties of the caller loop, checked under SpecLoop *)

\* C7: in a loop without veto and without client error, Retry(max) lets
\* max + 1 attempts happen (the first one and max more), and no loop of
\* Retry(max) issues more than that.
C7_OneMoreThanMax ==
    /\ (strategy.tag = "Retry") => attempts <= strategy.n + 1
    /\ (pc = "done" /\ clean /\ strategy.tag = "Retry") =>
           attempts = strategy.n + 1

-----------------------------------------------------------------------------
(* Properties of get_key, checked under SpecKey *)

Calls == 1..Len(key_log)
Generating(i) == key_log[i].self.tag \in {"Retry", "ExponentialBackoff"}

\* C8: get_key on Once returns no key and get_key on Idempotent(k) returns
\* k itself, on every call, with and without the uuid feature.
C8_GivenKeys ==
    \A i \in Calls :
        /\ key_log[i].self.tag = "Once" => key_log[i].key = None
        /\ key_log[i].self.tag = "Idempotent" =>
               key_log[i].key = Some(key_log[i].self.key)

C8_Witness ==
    /\ ~uuid_feature
    /\ \E i, j, l \in Calls :
          /\ i < j
          /\ key_log[i].self = Idempotent("abc") /\ key_log[i].key = Some("abc")
          /\ key_log[j].self = Idempotent("abc") /\ key_log[j].key = Some("abc")
          /\ key_log[l].self = Once /\ key_log[l].key = None

\* C9 as stated: with the uuid feature, every get_key call on Retry(n) or
\* ExponentialBackoff(n) returns a key, and two separate calls, on the same
\* policy value or on different ones, return different keys.
C9_FreshKeys ==
    uuid_feature =>
        \A i \in Calls : Generating(i) =>
            /\ IsSome(key_log[i].key)
            /\ \A j \in Calls :
                  (j # i /\ Generating(j)) => key_log[j].key # key_log[i].key

\* C9 as amended: with the uuid feature, every get_key call on Retry(n) or
\* ExponentialBackoff(n) takes an identifier from Uuid::new_v4() on that very
\* call and returns it rendered as the key, and two separate calls, on the
\* same policy value or on different ones, return different keys whenever
\* new_v4 gave them different identifiers.
C9_FreshDraws ==
    uuid_feature =>
        \A i \in Calls : Generating(i) =>
            /\ IsSome(key_log[i].uuid)
            /\ key_log[i].key = Some(to_string(Unwrap(key_log[i].uuid)))
            /\ \A j \in Calls :
                  (j # i /\ Generating(j) /\ key_log[j].uuid # key_log[i].uuid)
                      => key_log[j].key # key_log[i].key

C9_Witness ==
    /\ uuid_feature
    /\ \E i, j, l \in Calls :
          /\ i < j /\ l \notin {i, j}
          /\ key_log[i].self = Retry(MaxRetries)
          /\ key_log[j].self = Retry(MaxRetries)
          /\ key_log[l].self = ExponentialBackoff(MaxRetries)
          /\ Cardinality({key_log[i].uuid, key_log[j].uuid, key_log[l].uuid}) = 3
          /\ IsSome(key_log[i].key) /\ IsSome(key_log[j].key)
          /\ IsSome(key_log[l].key)
          /\ Cardinality({key_log[i].key, key_log[j].key, key_log[l].key}) = 3

\* C10: the uuid feature never changes during a run, and every get_key call
\* on Retry(n) or ExponentialBackoff(n) returns a key when it is enabled and
\* no key when it is not, so no run mixes the two.
C10_Inv ==
    \A i \in Calls : Generating(i) => (IsSome(key_log[i].key) <=> uuid_feature)

C10_FixedConfiguration ==
    /\ [][uuid_feature' = uuid_feature]_vars
    /\ []C10_Inv

C10_Witness ==
    /\ ~uuid_feature
    /\ \E i, j \in Calls :
          /\ key_log[i].self = Retry(MaxRetries) /\ key_log[i].key = None
          /\ key_log[j].self = ExponentialBackoff(MaxRetries)
          /\ key_log[j].key = None

-----------------------------------------------------------------------------
(* Relations between calls of the decision function, checked under SpecTest *)

\* C14: an absent hint is equivalent to a hint of true: with the hint
\* Some(true), test ends as it does with the hint None on the same policy,
\* status and count.
C14_AbsentHintIsTrue ==
    (Returned /\ stripe_should_retry = Some(TRUE)) =>
        outcome = test(strategy, status, None, retry_count)

C14_Witness ==
    /\ Returned /\ stripe_should_retry = Some(TRUE)
    /\ strategy = ExponentialBackoff(3) /\ status = Some(500) /\ retry_count = 2
    /\ outcome = Continue(Some(from_secs(4)))

\* C16: for Retry(n) and ExponentialBackoff(n) a client-error status makes
\* test return Stop at every count, the count 0 and the counts below n
\* included; for Idempotent(k) at the count 0 the first-try arm comes first
\* and a client-error status still gives Continue(None) (no veto passed).
C16_ClientErrorBeforeBudget ==
    (Returned /\ ClientError) =>
        /\ strategy.tag \in {"Retry", "ExponentialBackoff"} => outcome = Stop
        /\ (strategy.tag = "Idempotent" /\ retry_count = 0 /\ ~Vetoed) =>
               outcome = Continue(None)

C16_Witness ==
    /\ Returned /\ stripe_should_retry = None /\ status = Some(451)
    /\ strategy = ExponentialBackoff(3) /\ retry_count = 0
    /\ outcome = Stop

\* a Duration of at least one second
AtLeastOneSecond(d) == \E i \in 1..LimbCount : d.secs[i] > 0

\* C17: only ExponentialBackoff asks for a delay: Continue(Some(d)) is
\* returned for ExponentialBackoff alone, and then d >= 1 s; Once, Idempotent
\* and Retry return Stop or Continue(None) only; ExponentialBackoff never
\* returns Continue(None).
C17_DelayOnlyForBackoff ==
    Returned =>
        /\ (outcome.tag = "Continue" /\ IsSome(outcome.delay)) =>
               /\ strategy.tag = "ExponentialBackoff"
               /\ AtLeastOneSecond(Unwrap(outcome.delay))
        /\ strategy.tag \in {"Once", "Idempotent", "Retry"} =>
               outcome \in {Stop, Continue(None)}
        /\ strategy.tag = "ExponentialBackoff" => outcome # Continue(None)

C17_Witness ==
    /\ Returned /\ stripe_should_retry = None /\ status = None
    /\ strategy = ExponentialBackoff(1) /\ retry_count = 0
    /\ outcome = Continue(Some(from_secs(1)))

\* C18: the status counts only as client error or not: with a status code
\* outside 400..499 test ends as it does with no status, for the same
\* policy, hint and count.
C18_StatusOnlyAsClientError ==
    (Returned /\ IsSome(status) /\ Unwrap(status) \notin 400..499) =>
        outcome = test(strategy, None, stripe_should_retry, retry_count)

C18_Witness ==
    /\ Returned /\ stripe_should_retry = None /\ status = Some(500)
    /\ strategy = Retry(3) /\ retry_count = 1
    /\ outcome = Continue(None)

\* C19: Stop is monotone in the count: when test returns Stop at a count,
\* it returns Stop at every greater count for the same policy, status and
\* hint.
C19_StopIsMonotone ==
    (Returned /\ outcome = Stop) =>
        \A k \in (retry_count + 1)..(MaxCount + 1) :
            test(strategy, status, stripe_should_retry, k) = Stop

C19_Witness ==
    /\ Returned /\ stripe_should_retry = None /\ status = Some(500)
    /\ strategy = Retry(3) /\ retry_count = 3
    /\ outcome = Stop
    /\ test(strategy, status, stripe_should_retry, 2) = Continue(None)

-----------------------------------------------------------------------------
(* Properties of the caller loop for every maximum, checked under           *)
(* SpecLoopDeep                                                             *)

\* the Continues a policy allows: 1 for Once and Idempotent, n for Retry(n)
\* and ExponentialBackoff(n)
Budget(self) == IF self.tag \in {"Once", "Idempotent"} THEN 1 ELSE self.n

\* C15: retry loops are bounded: whatever statuses and hints come in, the
\* loop gets at most Budget Continues and ends by receiving Stop, never in
\* another way.
C15_BoundedLoop ==
    /\ attempts <= Budget(strategy)
    /\ pc # "loop" => (pc = "done" /\ outcome = Stop)

\* C20: in a loop without veto and without client error the attempts issued
\* in total are exactly n for Retry(n) and ExponentialBackoff(n) and exactly
\* 1 for Once and Idempotent (none for Retry(0) and ExponentialBackoff(0)).
C20_ExactAttempts ==
    (pc # "loop" /\ clean) => attempts = Budget(strategy)

-----------------------------------------------------------------------------
(* Properties of sequences of calls on one policy value, checked under Spec *)

\* C12: neither test nor get_key changes the policy value: through every
\* sequence of calls its variant and its payload stay what they were.
C12_PolicyUnchanged ==
    [][strategy' = strategy]_vars

C12_Witness ==
    /\ outcome = Continue(Some(from_secs(2)))
    /\ strategy = ExponentialBackoff(MaxRetries)
    /\ Len(key_log) >= 1
    /\ \A i \in 1..Len(key_log) : key_log[i].self = strategy

====
